---- MODULE Spec2Model ----
(***************************************************************************)
(* Young's modulus calculator (src/main.py): the interactive pipeline of   *)
(* main(), its input loops, the two physics functions and the report.      *)
(*                                                                         *)
(* Numbers.  A Python float is modelled as an exact value                  *)
(*      n/d * 2^e2 * 5^e5      (n, d coprime, both coprime to 10)          *)
(* or one of the IEEE specials nan, +inf, -inf.  The exponent range of a   *)
(* double is kept: a result far below 2^-1075 in magnitude is 0, one far   *)
(* above 2^1024 is +-inf, or OverflowError from a power, and a sum whose   *)
(* terms are more than 64 binades apart is its larger term.  In the range  *)
(* arithmetic is exact: rounding to 53 bits is not modelled, nor is the    *)
(* sign of zero.  ZeroDivisionError and OverflowError are the values ZDE   *)
(* and OVF, which every operation propagates.                              *)
(*                                                                         *)
(* Console lines are sequences of one-character strings over Alphabet.     *)
(***************************************************************************)
EXTENDS Integers, Sequences, FiniteSets, TLC

\* ------------------------------------------------------------------------
\* Exact arithmetic with IEEE specials
\* ------------------------------------------------------------------------
IAbs(i) == IF i < 0 THEN -i ELSE i

IMin(a, b) == IF a < b THEN a ELSE b

RECURSIVE GCD(_, _)
GCD(a, b) == IF b = 0 THEN a ELSE GCD(b, a % b)

RECURSIVE IPow(_, _)
IPow(b, k) == IF k = 0 THEN 1 ELSE b * IPow(b, k - 1)

\* How many times p divides m (m # 0).
RECURSIVE Mult(_, _)
Mult(m, p) == IF m % p = 0 THEN 1 + Mult(m \div p, p) ELSE 0

NAN == [k |-> "nan", n |-> 0, d |-> 1, e2 |-> 0, e5 |-> 0]

PINF == [k |-> "inf", n |-> 1, d |-> 1, e2 |-> 0, e5 |-> 0]

NINF == [k |-> "inf", n |-> -1, d |-> 1, e2 |-> 0, e5 |-> 0]

ZDE == [k |-> "ZeroDivisionError", n |-> 0, d |-> 1, e2 |-> 0, e5 |-> 0]

OVF == [k |-> "OverflowError", n |-> 0, d |-> 1, e2 |-> 0, e5 |-> 0]

ZERO == [k |-> "fin", n |-> 0, d |-> 1, e2 |-> 0, e5 |-> 0]

\* floor(log2 m) for m >= 1.
RECURSIVE Log2(_)
Log2(m) == IF m < 2 THEN 0 ELSE 1 + Log2(m \div 2)

\* 1000 * log2 |x| of a finite nonzero x, to within 2000.
Magnitude(x) == 1000 * (x.e2 + Log2(IAbs(x.n)) - Log2(x.d)) + 2322 * x.e5

\* Estimates of 1000 * log2 beyond which a double is 0, or infinite.
Underflow == -1077000

Overflow == 1026000

\* A finite value as a double holds it: 0 or +-inf outside the range.
InRange(x) ==
    IF x.n = 0 THEN x
    ELSE IF Magnitude(x) < Underflow THEN ZERO
    ELSE IF Magnitude(x) > Overflow THEN (IF x.n > 0 THEN PINF ELSE NINF)
    ELSE x

\* The canonical form of n/d * 2^e2 * 5^e5 (d > 0).
Canonical(n, d, e2, e5) ==
    IF n = 0 THEN ZERO
    ELSE LET g  == GCD(IAbs(n), d)
             n1 == IAbs(n) \div g
             d1 == d \div g
             a2 == Mult(n1, 2)
             a5 == Mult(n1, 5)
             b2 == Mult(d1, 2)
             b5 == Mult(d1, 5)
             m  == n1 \div (IPow(2, a2) * IPow(5, a5))
         IN  [k  |-> "fin",
              n  |-> IF n < 0 THEN -m ELSE m,
              d  |-> d1 \div (IPow(2, b2) * IPow(5, b5)),
              e2 |-> e2 + a2 - b2,
              e5 |-> e5 + a5 - b5]

\* The double for n/d * 2^e2 * 5^e5.
Norm(n, d, e2, e5) == InRange(Canonical(n, d, e2, e5))

\* An integer, and a decimal literal m * 10^e.
Int2F(i) == Norm(i, 1, 0, 0)

Dec(m, e) == Norm(m, 1, e, e)

IsErr(x) == x.k \in {"ZeroDivisionError", "OverflowError"}

IsNan(x) == x.k = "nan"

IsInf(x) == x.k = "inf"

IsFin(x) == x.k = "fin"

Sign(x) == IF x.n < 0 THEN -1 ELSE IF x.n > 0 THEN 1 ELSE 0

FNeg(x) == IF x.k \in {"fin", "inf"} THEN [x EXCEPT !.n = -x.n] ELSE x

FAbs(x) == IF x.k \in {"fin", "inf"} THEN [x EXCEPT !.n = IAbs(x.n)] ELSE x

FMul(x, y) ==
    IF IsErr(x) THEN x
    ELSE IF IsErr(y) THEN y
    ELSE IF IsNan(x) \/ IsNan(y) THEN NAN
    ELSE IF IsInf(x) \/ IsInf(y)
         THEN IF Sign(x) * Sign(y) = 0 THEN NAN
              ELSE IF Sign(x) * Sign(y) > 0 THEN PINF ELSE NINF
    ELSE Norm(x.n * y.n, x.d * y.d, x.e2 + y.e2, x.e5 + y.e5)

\* Python float division: a zero divisor raises, whatever the dividend.
FDiv(x, y) ==
    IF IsErr(x) THEN x
    ELSE IF IsErr(y) THEN y
    ELSE IF IsFin(y) /\ y.n = 0 THEN ZDE
    ELSE IF IsNan(x) \/ IsNan(y) THEN NAN
    ELSE IF IsInf(x)
         THEN IF IsInf(y) THEN NAN
              ELSE IF Sign(x) * Sign(y) > 0 THEN PINF ELSE NINF
    ELSE IF IsInf(y) THEN ZERO
    ELSE Norm(Sign(y) * x.n * y.d, x.d * IAbs(y.n), x.e2 - y.e2, x.e5 - y.e5)

\* Terms this far apart (1000 * log2) add up to the larger one.
Absorbed == 64000

FAdd(x, y) ==
    IF IsErr(x) THEN x
    ELSE IF IsErr(y) THEN y
    ELSE IF IsNan(x) \/ IsNan(y) THEN NAN
    ELSE IF IsInf(x)
         THEN IF IsInf(y) /\ Sign(x) # Sign(y) THEN NAN ELSE x
    ELSE IF IsInf(y) THEN y
    ELSE IF x.n = 0 THEN y
    ELSE IF y.n = 0 THEN x
    ELSE IF Magnitude(x) - Magnitude(y) > Absorbed THEN x
    ELSE IF Magnitude(y) - Magnitude(x) > Absorbed THEN y
    ELSE LET m2 == IMin(x.e2, y.e2)
             m5 == IMin(x.e5, y.e5)
             xs == x.n * IPow(2, x.e2 - m2) * IPow(5, x.e5 - m5)
             ys == y.n * IPow(2, y.e2 - m2) * IPow(5, y.e5 - m5)
         IN  Norm(xs * y.d + ys * x.d, x.d * y.d, m2, m5)

FSub(x, y) == FAdd(x, FNeg(y))

\* What ** returns for the product r of finite or special x: it raises
\* where the product of finite factors is out of range.
pow_result(x, r) == IF IsFin(x) /\ IsInf(r) THEN OVF ELSE r

\* x ** k for a small positive integer k.
RECURSIVE FPow(_, _)
FPow(x, k) == IF k = 1 THEN x ELSE pow_result(x, FMul(x, FPow(x, k - 1)))

\* Comparisons: every ordered comparison with nan is false, != is true.
FLt(x, y) ==
    IF IsNan(x) \/ IsNan(y) THEN FALSE
    ELSE IF IsInf(x) THEN Sign(x) < 0 /\ ~(IsInf(y) /\ Sign(y) < 0)
    ELSE IF IsInf(y) THEN Sign(y) > 0
    ELSE Sign(FSub(x, y)) < 0

FEq(x, y) == ~IsNan(x) /\ ~IsNan(y) /\ x = y

FNe(x, y) == ~FEq(x, y)

FLe(x, y) == FLt(x, y) \/ FEq(x, y)

\* ------------------------------------------------------------------------
\* Console lines and the built-in conversions applied to them
\* ------------------------------------------------------------------------
Digits == <<"0", "1", "2", "3", "4", "5", "6", "7", "8", "9">>

DigitSet == {Digits[j] : j \in 1..10}

UpperToLower == [c \in {"A", "E", "F", "I", "N", "S", "Y", "O"} |->
                   CASE c = "A" -> "a" [] c = "E" -> "e" [] c = "F" -> "f"
                     [] c = "I" -> "i" [] c = "N" -> "n" [] c = "S" -> "s"
                     [] c = "Y" -> "y" [] c = "O" -> "o"]

\* The characters console lines are made of.
Alphabet == DigitSet \cup {"+", "-", ".", " "}
              \cup {"a", "b", "c", "e", "f", "i", "n", "o", "s", "t", "y"}
              \cup DOMAIN UpperToLower

Whitespace == {" "}

VALUE_ERROR == [k |-> "ValueError"]

IsValueError(x) == x.k = "ValueError"

DigitVal(c) == (CHOOSE j \in 1..10 : Digits[j] = c) - 1

Tail2(s, from) == SubSeq(s, from, Len(s))

\* str.strip(): leading and trailing whitespace removed.
RECURSIVE lstrip(_)
lstrip(s) == IF s # <<>> /\ Head(s) \in Whitespace THEN lstrip(Tail(s)) ELSE s

RECURSIVE rstrip(_)
rstrip(s) == IF s # <<>> /\ s[Len(s)] \in Whitespace
             THEN rstrip(SubSeq(s, 1, Len(s) - 1)) ELSE s

strip(s) == rstrip(lstrip(s))

\* str.lower()
lower(s) == [j \in 1..Len(s) |->
               IF s[j] \in DOMAIN UpperToLower THEN UpperToLower[s[j]] ELSE s[j]]

AllDigits(s) == \A j \in 1..Len(s) : s[j] \in DigitSet

RECURSIVE DigitsVal(_)
DigitsVal(s) == IF s = <<>> THEN 0
                ELSE 10 * DigitsVal(SubSeq(s, 1, Len(s) - 1)) + DigitVal(s[Len(s)])

\* First position of a character of cs in s, or 0.
IndexOf(s, cs) == IF \E j \in 1..Len(s) : s[j] \in cs
                  THEN CHOOSE j \in 1..Len(s) :
                         s[j] \in cs /\ \A h \in 1..(j - 1) : s[h] \notin cs
                  ELSE 0

HasSign(s) == s # <<>> /\ Head(s) \in {"+", "-"}

Unsigned(s) == IF HasSign(s) THEN Tail(s) ELSE s

SignOf(s) == IF s # <<>> /\ Head(s) = "-" THEN -1 ELSE 1

\* int(line): optional whitespace, optional sign, one or more digits.
int(line) ==
    LET s == strip(line)
        u == Unsigned(s)
    IN  IF u # <<>> /\ AllDigits(u)
        THEN [k |-> "int", v |-> SignOf(s) * DigitsVal(u)]
        ELSE VALUE_ERROR

\* float(line): optional whitespace, optional sign, then inf, infinity, nan
\* (any case) or a decimal with optional fraction and exponent.
float(line) ==
    LET s  == strip(line)
        u  == Unsigned(s)
        lu == lower(u)
        ep == IndexOf(lu, {"e"})
        mant == IF ep = 0 THEN lu ELSE SubSeq(lu, 1, ep - 1)
        expo == IF ep = 0 THEN <<>> ELSE Tail2(lu, ep + 1)
        dp == IndexOf(mant, {"."})
        ip == IF dp = 0 THEN mant ELSE SubSeq(mant, 1, dp - 1)
        fp == IF dp = 0 THEN <<>> ELSE Tail2(mant, dp + 1)
        mantOK == AllDigits(ip) /\ AllDigits(fp) /\ Len(ip) + Len(fp) > 0
        expoOK == ep = 0 \/ (Unsigned(expo) # <<>> /\ AllDigits(Unsigned(expo)))
        ev == IF ep = 0 THEN 0 ELSE SignOf(expo) * DigitsVal(Unsigned(expo))
    IN  IF lu \in {<<"i", "n", "f">>, <<"i", "n", "f", "i", "n", "i", "t", "y">>}
        THEN IF SignOf(s) < 0 THEN NINF ELSE PINF
        ELSE IF lu = <<"n", "a", "n">> THEN NAN
        ELSE IF mantOK /\ expoOK
        THEN Norm(SignOf(s) * DigitsVal(ip \o fp), 1, ev - Len(fp), ev - Len(fp))
        ELSE VALUE_ERROR

\* '%.<p>f' % x as a number: x rounded half-even to p decimals.  A value
\* below 2^-64 prints as 0; one above 2^64 is a whole number and prints as
\* it is.
RoundTo(x, p) ==
    IF ~IsFin(x) \/ x.n = 0 THEN x
    ELSE IF Magnitude(x) < -Absorbed THEN ZERO
    ELSE IF Magnitude(x) > Absorbed THEN x
    ELSE LET a  == x.e2 + p
             b  == x.e5 + p
             nn == IAbs(x.n) * IPow(2, IF a > 0 THEN a ELSE 0)
                             * IPow(5, IF b > 0 THEN b ELSE 0)
             dd == x.d * IPow(2, IF a < 0 THEN -a ELSE 0)
                       * IPow(5, IF b < 0 THEN -b ELSE 0)
             q  == nn \div dd
             r  == nn % dd
             m  == IF 2 * r > dd \/ (2 * r = dd /\ q % 2 = 1) THEN q + 1 ELSE q
         IN  Norm(Sign(x) * m, 1, -p, -p)

\* ------------------------------------------------------------------------
\* Material catalog
\* ------------------------------------------------------------------------
\* The literal MATERIAL_DATABASE is initialised with: a dict, kept here as
\* the sequence of its entries in insertion order.
DATABASE_LITERAL == <<
    [key |-> "iron",            name |-> "Iron",            youngs_modulus |-> Int2F(210), density |-> Dec(787, -2)],
    [key |-> "steel",           name |-> "Steel (Mild)",    youngs_modulus |-> Int2F(200), density |-> Dec(785, -2)],
    [key |-> "stainless_steel", name |-> "Stainless Steel", youngs_modulus |-> Int2F(190), density |-> Dec(800, -2)],
    [key |-> "aluminum",        name |-> "Aluminum",        youngs_modulus |-> Int2F(69),  density |-> Dec(270, -2)],
    [key |-> "copper",          name |-> "Copper",          youngs_modulus |-> Int2F(130), density |-> Dec(896, -2)],
    [key |-> "brass",           name |-> "Brass",           youngs_modulus |-> Int2F(100), density |-> Dec(850, -2)],
    [key |-> "oak_wood",        name |-> "Oak Wood",        youngs_modulus |-> Int2F(11),  density |-> Dec(75, -2)],
    [key |-> "pine_wood",       name |-> "Pine Wood",       youngs_modulus |-> Int2F(9),   density |-> Dec(55, -2)],
    [key |-> "teak_wood",       name |-> "Teak Wood",       youngs_modulus |-> Int2F(12),  density |-> Dec(65, -2)],
    [key |-> "bamboo",          name |-> "Bamboo",          youngs_modulus |-> Int2F(20),  density |-> Dec(60, -2)],
    [key |-> "plywood",         name |-> "Plywood",         youngs_modulus |-> Int2F(6),   density |-> Dec(55, -2)],
    [key |-> "pvc",             name |-> "PVC",             youngs_modulus |-> Int2F(3),   density |-> Dec(140, -2)],
    [key |-> "acrylic",         name |-> "Acrylic",         youngs_modulus |-> Dec(32, -1), density |-> Dec(118, -2)] >>

\* list(db.keys())
keys(db) == [j \in 1..Len(db) |-> db[j].key]

\* db[key]: the dict stored under a key.
getitem(db, key) ==
    LET e == CHOOSE e \in {db[j] : j \in 1..Len(db)} : e.key = key
    IN  [name |-> e.name, youngs_modulus |-> e.youngs_modulus, density |-> e.density]

\* ------------------------------------------------------------------------
\* Physics
\* ------------------------------------------------------------------------
calculate_moment_of_inertia(b, w) == FDiv(FMul(b, FPow(w, 3)), Int2F(12))

NO_READING == [k |-> "skipped"]

\* The locals the three per-reading loops compute first, lines 229-233,
\* 265-269 and 315-319.
weight_kg_of(reading) == FDiv(reading.weight, Int2F(1000))

force_N_of(reading) == FMul(weight_kg_of(reading), Dec(981, -2))

depression_m_of(reading) == FDiv(reading.depression, Int2F(100))

length_m_of(len) == FDiv(len, Int2F(100))

I_m4_of(I) == FDiv(I, Int2F(100000000))

\* calculate_youngs_modulus_uniform, the if of its loop: the Y_GPa appended,
\* NO_READING when nothing is appended, ZDE or OVF if the formula raises.
uniform_if(force_N, depression_m, length_m, I_m4) ==
    IF FNe(depression_m, ZERO)
    THEN FDiv(FDiv(FMul(FMul(Int2F(5), FDiv(force_N, length_m)), FPow(length_m, 4)),
                   FMul(FMul(Int2F(384), I_m4), FAbs(depression_m))),
              Dec(1, 9))
    ELSE NO_READING

\* Body of the loop of calculate_youngs_modulus_uniform for one reading.
uniform_reading(len, I, reading) ==
    uniform_if(force_N_of(reading), depression_m_of(reading), length_m_of(len), I_m4_of(I))

\* calculate_youngs_modulus_nonuniform, the if of its loop.
nonuniform_if(force_N, depression_m, length_m, I_m4) ==
    IF FNe(depression_m, ZERO)
    THEN FDiv(FDiv(FMul(force_N, FPow(length_m, 3)),
                   FMul(FMul(Int2F(48), I_m4), FAbs(depression_m))),
              Dec(1, 9))
    ELSE NO_READING

\* Body of the loop of calculate_youngs_modulus_nonuniform for one reading.
nonuniform_reading(len, I, reading) ==
    nonuniform_if(force_N_of(reading), depression_m_of(reading), length_m_of(len), I_m4_of(I))

\* The loop has raised: what is left of youngs_moduli is the exception.
raised(acc) == acc # <<>> /\ IsErr(acc[1])

\* youngs_moduli after one more iteration that produced y; once an iteration
\* has raised, the exception alone.
appended(acc, y) ==
    IF raised(acc) THEN acc
    ELSE IF IsErr(y) THEN <<y>>
    ELSE IF y = NO_READING THEN acc
    ELSE Append(acc, y)

\* youngs_moduli after the for loop over rs.
RECURSIVE uniform_moduli(_, _, _)
uniform_moduli(len, I, rs) ==
    IF rs = <<>> THEN <<>>
    ELSE appended(uniform_moduli(len, I, SubSeq(rs, 1, Len(rs) - 1)),
                  uniform_reading(len, I, rs[Len(rs)]))

RECURSIVE nonuniform_moduli(_, _, _)
nonuniform_moduli(len, I, rs) ==
    IF rs = <<>> THEN <<>>
    ELSE appended(nonuniform_moduli(len, I, SubSeq(rs, 1, Len(rs) - 1)),
                  nonuniform_reading(len, I, rs[Len(rs)]))

\* sum(xs): left to right from the integer 0.
RECURSIVE sum(_)
sum(xs) == IF xs = <<>> THEN ZERO
           ELSE FAdd(sum(SubSeq(xs, 1, Len(xs) - 1)), xs[Len(xs)])

\* sum(youngs_moduli) / len(youngs_moduli) if youngs_moduli else 0
average(youngs_moduli) ==
    IF youngs_moduli # <<>>
    THEN FDiv(sum(youngs_moduli), Int2F(Len(youngs_moduli)))
    ELSE ZERO

\* The rest of a physics function once I is computed: nothing if that raised.
after_I(I, result) == IF IsErr(I) THEN I ELSE result

calculate_youngs_modulus_uniform(len, b, w, rs) ==
    after_I(calculate_moment_of_inertia(b, w),
            average(uniform_moduli(len, calculate_moment_of_inertia(b, w), rs)))

calculate_youngs_modulus_nonuniform(len, b, w, rs) ==
    after_I(calculate_moment_of_inertia(b, w),
            average(nonuniform_moduli(len, calculate_moment_of_inertia(b, w), rs)))

\* ------------------------------------------------------------------------
\* Report rendering
\* ------------------------------------------------------------------------
\* display_if with the two bending types exchanged.
display_if_exchanged(bt, force_N, depression_m, length_m, I_m4) ==
    IF FNe(depression_m, ZERO)
    THEN FDiv(IF bt # 1
              THEN FDiv(FMul(FMul(Int2F(5), FDiv(force_N, length_m)), FPow(length_m, 4)),
                        FMul(FMul(Int2F(384), I_m4), FAbs(depression_m)))
              ELSE FDiv(FMul(force_N, FPow(length_m, 3)),
                        FMul(FMul(Int2F(48), I_m4), FAbs(depression_m))),
              Dec(1, 9))
    ELSE ZERO

\* display_results, the if of its table loop (its own copy of the formulas):
\* the Y_GPa of the row, ZDE or OVF if the formula raises.
display_if(bt, force_N, depression_m, length_m, I_m4) ==
    IF FNe(depression_m, ZERO)
    THEN FDiv(IF bt = 1
              THEN FDiv(FMul(FMul(Int2F(5), FDiv(force_N, length_m)), FPow(length_m, 4)),
                        FMul(FMul(Int2F(384), I_m4), FAbs(depression_m)))
              ELSE FDiv(FMul(force_N, FPow(length_m, 3)),
                        FMul(FMul(Int2F(48), I_m4), FAbs(depression_m))),
              Dec(1, 9))
    ELSE ZERO

display_reading(len, I, bt, reading) ==
    display_if(bt, force_N_of(reading), depression_m_of(reading), length_m_of(len), I_m4_of(I))

\* display_row, but the magnitude of the depression is shown.
display_row_unsigned(len, I, bt, reading) ==
    [reading_num |-> reading.reading_num,
     weight      |-> RoundTo(reading.weight, 2),
     depression  |-> RoundTo(FAbs(reading.depression), 4),
     Y_GPa       |-> display_reading(len, I, bt, reading)]

\* One table row: reading number, weight as %.2f, depression as %.4f, and
\* Y_GPa (printed as %.2f).
display_row(len, I, bt, reading) ==
    [reading_num |-> reading.reading_num,
     weight      |-> RoundTo(reading.weight, 2),
     depression  |-> RoundTo(reading.depression, 4),
     Y_GPa       |-> display_reading(len, I, bt, reading)]

\* The rows of the table loop over rs, in order; a row whose Y_GPa is ZDE or OVF is
\* where the loop raised.
display_rows(len, I, bt, rs) == [j \in 1..Len(rs) |-> display_row(len, I, bt, rs[j])]

NOT_PRINTED == [k |-> "not printed"]

\* abs(calculated - reference) / reference
relative_difference(calc, mat) ==
    FDiv(FAbs(FSub(calc, mat.youngs_modulus)), mat.youngs_modulus)

\* The percentage line, printed only if reference != 0.
percent_difference(calc, mat) ==
    IF FNe(mat.youngs_modulus, ZERO)
    THEN RoundTo(FMul(relative_difference(calc, mat), Int2F(100)), 2)
    ELSE NOT_PRINTED

\* analysis with the boundary on the wrong side: <= 0.2 counts as consistent.
verdict_inclusive(ratio) ==
    IF IsErr(ratio) THEN "ZeroDivisionError"
    ELSE IF FLe(ratio, Dec(2, -1)) THEN "consistent"
    ELSE "differs significantly"

\* The if of the ANALYSIS section on the ratio it computes.
verdict(ratio) ==
    IF IsErr(ratio) THEN "ZeroDivisionError"
    ELSE IF FLt(ratio, Dec(2, -1)) THEN "consistent"
    ELSE "differs significantly"

\* The ANALYSIS section: which verdict is printed, or the error raised.
analysis(calc, mat) == verdict(relative_difference(calc, mat))

NO_SCREEN == [rows |-> <<>>, moment_of_inertia |-> NOT_PRINTED,
              calculated |-> NOT_PRINTED, expected |-> NOT_PRINTED,
              percent_diff |-> NOT_PRINTED, verdict |-> "", note |-> FALSE]

\* Everything display_results prints, top to bottom.
display_results_output(mat, len, b, w, bt, rs, calc) ==
    [rows              |-> display_rows(len, calculate_moment_of_inertia(b, w), bt, rs),
     moment_of_inertia |-> RoundTo(calculate_moment_of_inertia(b, w), 6),
     calculated        |-> RoundTo(calc, 2),
     expected          |-> mat.youngs_modulus,
     percent_diff      |-> percent_difference(calc, mat),
     verdict           |-> analysis(calc, mat),
     note              |-> analysis(calc, mat) = "differs significantly"]

\* The file written by main on consent.
report_filename(key, bt) == "youngs_modulus_" \o key \o "_" \o ToString(bt) \o ".txt"

report_file(key, mat, len, b, w, bt, rs, calc) ==
    [name       |-> report_filename(key, bt),
     material   |-> mat.name,
     expected   |-> mat.youngs_modulus,
     calculated |-> RoundTo(calc, 2),
     dimensions |-> <<len, b, w>>,
     bending    |-> IF bt = 1 THEN "Uniform" ELSE "Non-Uniform",
     readings   |-> [j \in 1..Len(rs) |->
                       [reading_num |-> rs[j].reading_num,
                        weight      |-> rs[j].weight,
                        depression  |-> rs[j].depression]]]

\* ------------------------------------------------------------------------
\* Operator input
\* ------------------------------------------------------------------------
\* Largest reading count the operator enters.
MaxReadings == 2

ChoiceLines == {<<"1">>, <<" ", "1", "3", " ">>, <<"1", "4">>, <<"0">>,
                <<"-", "1">>, <<"a", "b", "c">>, <<"2", ".", "5">>}

LengthLines == {<<"1", "0", "0">>, <<"0">>, <<"a", "b", "c">>, <<"n", "a", "n">>}

BreadthLines == {<<"2">>, <<"-", "1">>, <<>>}

WidthLines == {<<"0", ".", "5">>, <<"0", ".", "0">>, <<"1", "e">>, <<"1", "e", "2", "0", "0">>}

BendingLines == {<<"1">>, <<"2">>, <<"3">>, <<"0">>, <<"o", "n", "e">>}

CountLines == {<<Digits[c + 1]>> : c \in 0..MaxReadings}
                \cup {<<"-", "2">>, <<"1", ".", "5">>, <<"t", "e", "n">>}

WeightLines == {<<"1", "0">>, <<"0">>, <<"-", "5">>, <<"a", "b", "c">>, <<"n", "a", "n">>}

DepressionLines == {<<"0", ".", "1">>, <<"0">>, <<"-", "0", ".", "2">>,
                    <<"a", "b", "c">>, <<"n", "a", "n">>, <<"i", "n", "f">>,
                    <<"1", "e", "-", "3", "2", "0">>, <<"5", "e", "-", "3", "2", "4">>}

SaveLines == {<<"y", "e", "s">>, <<"y">>, <<" ", "Y", "E", "S", " ">>, <<"n", "o">>,
              <<>>, <<"y", "e", "s", "s">>}

\* ------------------------------------------------------------------------
\* State
\* ------------------------------------------------------------------------
VARIABLES
    MATERIAL_DATABASE,   \* the module-level catalog
    pc,                  \* where main() is: the prompt it blocks on, or the step it runs next
    line,                \* the line the last input() returned
    material_key,        \* locals of main() and of the function it is in
    material,
    length,
    breadth,
    width,
    bending_type,
    num_readings,
    weight_increment,
    i,
    readings,
    calculated_modulus,
    screen,              \* what display_results printed
    files,               \* files written in the working directory
    error                \* the uncaught exception that ended the run, if any

vars == <<MATERIAL_DATABASE, pc, line, material_key, material, length, breadth, width, bending_type,
          num_readings, weight_increment, i, readings, calculated_modulus,
          screen, files, error>>

NONE == [k |-> "None"]

NO_LINE == <<"<", ">">>

Init ==
    /\ MATERIAL_DATABASE = DATABASE_LITERAL
    /\ pc = "choice"
    /\ line = NO_LINE
    /\ material_key = ""
    /\ material = NONE
    /\ length = NONE
    /\ breadth = NONE
    /\ width = NONE
    /\ bending_type = 0
    /\ num_readings = 0
    /\ weight_increment = NONE
    /\ i = 0
    /\ readings = <<>>
    /\ calculated_modulus = NONE
    /\ screen = NO_SCREEN
    /\ files = {}
    /\ error = ""

\* ------------------------------------------------------------------------
\* Input collection: one action per input() call
\* ------------------------------------------------------------------------
\* choice_in_range with the upper end excluded.
choice_in_range_exclusive(choice, n) == 1 <= choice /\ choice < n

\* 1 <= choice <= len(MATERIAL_DATABASE)
choice_in_range(choice, n) == 1 <= choice /\ choice <= n

\* list(MATERIAL_DATABASE.keys())[choice - 1]
key_at(db, choice) == keys(db)[(choice - 1) + 1]

\* get_material_choice: one pass of its loop.
get_material_choice(l) ==
    /\ pc = "choice"
    /\ line' = l
    /\ LET choice == int(l)
       IN  IF ~IsValueError(choice) /\ choice_in_range(choice.v, Len(MATERIAL_DATABASE))
           THEN /\ material_key' = key_at(MATERIAL_DATABASE, choice.v)
                /\ material' = getitem(MATERIAL_DATABASE, key_at(MATERIAL_DATABASE, choice.v))
                /\ pc' = "length"
           ELSE UNCHANGED <<material_key, material, pc>>
    /\ UNCHANGED <<MATERIAL_DATABASE, length, breadth, width, bending_type, num_readings, weight_increment,
                   i, readings, calculated_modulus, screen, files, error>>

\* The prompt get_dimensions goes to after a rejected attempt.
dimensions_retry(prompt) == "length"

\* The test that rejects an attempt of get_dimensions.
dimensions_rejected(l, b, w) == FLe(l, ZERO) \/ FLe(b, ZERO) \/ FLe(w, ZERO)

\* get_dimensions: the length prompt.
get_dimensions_length(l) ==
    /\ pc = "length"
    /\ line' = l
    /\ IF IsValueError(float(l))
       THEN pc' = dimensions_retry("length") /\ UNCHANGED length
       ELSE pc' = "breadth" /\ length' = float(l)
    /\ UNCHANGED <<MATERIAL_DATABASE, material_key, material, breadth, width, bending_type, num_readings,
                   weight_increment, i, readings, calculated_modulus, screen, files, error>>

\* get_dimensions: the breadth prompt.
get_dimensions_breadth(l) ==
    /\ pc = "breadth"
    /\ line' = l
    /\ IF IsValueError(float(l))
       THEN pc' = dimensions_retry("breadth") /\ UNCHANGED breadth
       ELSE pc' = "width" /\ breadth' = float(l)
    /\ UNCHANGED <<MATERIAL_DATABASE, material_key, material, length, width, bending_type, num_readings,
                   weight_increment, i, readings, calculated_modulus, screen, files, error>>

\* get_dimensions: the width prompt, the positivity test and the return.
get_dimensions_width(l) ==
    /\ pc = "width"
    /\ line' = l
    /\ IF IsValueError(float(l))
       THEN pc' = dimensions_retry("width") /\ UNCHANGED width
       ELSE /\ width' = float(l)
            /\ pc' = IF dimensions_rejected(length, breadth, float(l))
                     THEN dimensions_retry("width")
                     ELSE "bending"
    /\ UNCHANGED <<MATERIAL_DATABASE, material_key, material, length, breadth, bending_type, num_readings,
                   weight_increment, i, readings, calculated_modulus, screen, files, error>>

\* get_bending_type: one pass of its loop.
get_bending_type(l) ==
    /\ pc = "bending"
    /\ line' = l
    /\ LET choice == int(l)
       IN  IF ~IsValueError(choice) /\ choice.v \in {1, 2}
           THEN bending_type' = choice.v /\ pc' = "num_readings"
           ELSE UNCHANGED <<bending_type, pc>>
    /\ UNCHANGED <<MATERIAL_DATABASE, material_key, material, length, breadth, width, num_readings,
                   weight_increment, i, readings, calculated_modulus, screen, files, error>>

\* get_readings: one pass of the reading-count loop.
get_readings_count(l) ==
    /\ pc = "num_readings"
    /\ line' = l
    /\ LET n == int(l)
       IN  IF IsValueError(n) THEN UNCHANGED <<num_readings, pc>>
           ELSE /\ num_readings' = n.v
                /\ pc' = IF n.v <= 0 THEN "num_readings" ELSE "weight_increment"
    /\ UNCHANGED <<MATERIAL_DATABASE, material_key, material, length, breadth, width, bending_type,
                   weight_increment, i, readings, calculated_modulus, screen, files, error>>

\* get_readings: one pass of the weight-increment loop; on success the
\* readings list is created and the for loop starts.
get_readings_weight(l) ==
    /\ pc = "weight_increment"
    /\ line' = l
    /\ LET w == float(l)
       IN  IF IsValueError(w) THEN UNCHANGED <<weight_increment, pc, readings, i>>
           ELSE /\ weight_increment' = w
                /\ IF FLe(w, ZERO)
                   THEN UNCHANGED <<pc, readings, i>>
                   ELSE pc' = "reading" /\ readings' = <<>> /\ i' = 0
    /\ UNCHANGED <<MATERIAL_DATABASE, material_key, material, length, breadth, width, bending_type,
                   num_readings, calculated_modulus, screen, files, error>>

\* reading_retry, but a failed entry is skipped.
reading_retry_skipping(j) == j + 1

\* The index get_readings prompts for after a failed deflection entry.
reading_retry(j) == j

\* get_readings: one deflection prompt of the for loop (index i, 0-based).
get_readings_depression(l) ==
    /\ pc = "reading"
    /\ line' = l
    /\ LET weight     == FMul(weight_increment, Int2F(i + 1))
           depression == float(l)
       IN  IF IsValueError(depression)
           THEN i' = reading_retry(i) /\ UNCHANGED <<readings, pc>>
           ELSE /\ readings' = Append(readings, [reading_num |-> i + 1,
                                                  weight      |-> weight,
                                                  depression  |-> depression])
                /\ i' = i + 1
                /\ pc' = IF i + 1 < num_readings THEN "reading" ELSE "calculate"
    /\ UNCHANGED <<MATERIAL_DATABASE, material_key, material, length, breadth, width, bending_type,
                   num_readings, weight_increment, calculated_modulus, screen, files, error>>

\* ------------------------------------------------------------------------
\* Computation, report, save
\* ------------------------------------------------------------------------
\* main: the dispatch on bending_type.
dispatch(bt, len, b, w, rs) ==
    IF bt = 1
    THEN calculate_youngs_modulus_uniform(len, b, w, rs)
    ELSE calculate_youngs_modulus_nonuniform(len, b, w, rs)

calculate ==
    /\ pc = "calculate"
    /\ LET r == dispatch(bending_type, length, breadth, width, readings)
       IN  IF IsErr(r)
           THEN pc' = "crashed" /\ error' = r.k /\ UNCHANGED calculated_modulus
           ELSE pc' = "display" /\ calculated_modulus' = r /\ UNCHANGED error
    /\ UNCHANGED <<MATERIAL_DATABASE, line, material_key, material, length, breadth, width, bending_type,
                   num_readings, weight_increment, i, readings, screen, files>>

\* The exception of the first row of the table loop that raised.
first_raised(rows) ==
    rows[CHOOSE j \in 1..Len(rows) :
           IsErr(rows[j].Y_GPa) /\ \A h \in 1..(j - 1) : ~IsErr(rows[h].Y_GPa)].Y_GPa

display_results ==
    /\ pc = "display"
    /\ screen' = display_results_output(material, length, breadth, width, bending_type,
                                        readings, calculated_modulus)
    /\ IF IsErr(screen'.moment_of_inertia)
       THEN pc' = "crashed" /\ error' = screen'.moment_of_inertia.k
       ELSE IF \E j \in 1..Len(screen'.rows) : IsErr(screen'.rows[j].Y_GPa)
       THEN pc' = "crashed" /\ error' = first_raised(screen'.rows).k
       ELSE IF screen'.verdict = "ZeroDivisionError"
       THEN pc' = "crashed" /\ error' = "ZeroDivisionError"
       ELSE pc' = "save" /\ UNCHANGED error
    /\ UNCHANGED <<MATERIAL_DATABASE, line, material_key, material, length, breadth, width,
                   bending_type, num_readings, weight_increment, i, readings,
                   calculated_modulus, files>>

\* affirmative, but anything that starts with "y" counts.
affirmative_by_first_letter(l) == lower(strip(l)) # <<>> /\ Head(lower(strip(l))) = "y"

\* The answers that are taken as consent to save.
affirmative(l) == lower(strip(l)) \in {<<"y", "e", "s">>, <<"y">>}

\* main: the save prompt and, on consent, the write of the report file.
save(l) ==
    /\ pc = "save"
    /\ line' = l
    /\ files' = IF affirmative(l)
                THEN {f \in files : f.name # report_filename(material_key, bending_type)}
                       \cup {report_file(material_key, material, length, breadth, width,
                                         bending_type, readings, calculated_modulus)}
                ELSE files
    /\ pc' = "done"
    /\ UNCHANGED <<MATERIAL_DATABASE, material_key, material, length, breadth, width, bending_type,
                   num_readings, weight_increment, i, readings, calculated_modulus,
                   screen, error>>

Next ==
    \/ \E l \in ChoiceLines : get_material_choice(l)
    \/ \E l \in LengthLines : get_dimensions_length(l)
    \/ \E l \in BreadthLines : get_dimensions_breadth(l)
    \/ \E l \in WidthLines : get_dimensions_width(l)
    \/ \E l \in BendingLines : get_bending_type(l)
    \/ \E l \in CountLines : get_readings_count(l)
    \/ \E l \in WeightLines : get_readings_weight(l)
    \/ \E l \in DepressionLines : get_readings_depression(l)
    \/ calculate
    \/ display_results
    \/ \E l \in SaveLines : save(l)

Spec == Init /\ [][Next]_vars

\* ------------------------------------------------------------------------
\* display_results on its own: called with arguments drawn from small sets
\* ------------------------------------------------------------------------
\* The catalog after an edit that sets one reference modulus to 0.
EDITED_DATABASE == [DATABASE_LITERAL EXCEPT ![1].youngs_modulus = ZERO]

CalculatedValues == {ZERO, Int2F(167), Int2F(168), Int2F(210), Int2F(252), Int2F(253),
                     Dec(72, -1), Dec(108, -1), Dec(256, -2), Dec(384, -2), NAN, PINF}

ReadingLists ==
    {<<[reading_num |-> 1, weight |-> Int2F(10), depression |-> Dec(1, -1)]>>,
     <<[reading_num |-> 1, weight |-> Int2F(10), depression |-> Dec(-2, -1)],
       [reading_num |-> 2, weight |-> Int2F(20), depression |-> ZERO]>>}

DisplayArguments(databases) ==
    /\ MATERIAL_DATABASE \in databases
    /\ pc = "display"
    /\ line = NO_LINE
    /\ material_key \in {MATERIAL_DATABASE[j].key : j \in 1..Len(MATERIAL_DATABASE)}
    /\ material = getitem(MATERIAL_DATABASE, material_key)
    /\ length = Int2F(100)
    /\ breadth = Int2F(2)
    /\ width = Dec(5, -1)
    /\ bending_type \in {1, 2}
    /\ readings \in ReadingLists
    /\ num_readings = Len(readings)
    /\ weight_increment = Int2F(10)
    /\ i = Len(readings)
    /\ calculated_modulus \in CalculatedValues
    /\ screen = NO_SCREEN
    /\ files = {}
    /\ error = ""

InitDisplay == DisplayArguments({DATABASE_LITERAL})

InitDisplayEdited == DisplayArguments({DATABASE_LITERAL, EDITED_DATABASE})

NextDisplay == display_results

SpecDisplay == InitDisplay /\ [][NextDisplay]_vars

SpecDisplayEdited == InitDisplayEdited /\ [][NextDisplay]_vars

\* ------------------------------------------------------------------------
\* Properties
\* ------------------------------------------------------------------------
\* C1: display_results never divides by a reference modulus that is 0: with a
\* material whose reference is 0 it raises no ZeroDivisionError.
C1_NoDivisionByZeroReference ==
    ~(FEq(material.youngs_modulus, ZERO) /\ error = "ZeroDivisionError")

\* C3: once display_results has returned, the verdict is "consistent" exactly
\* when |calculated - reference| is strictly less than a fifth of the
\* reference, otherwise "differs significantly" with the note; one of the two
\* is always printed.
C3_VerdictStrictlyBelowTwentyPercent ==
    pc = "save" =>
        LET c == calculated_modulus
            r == material.youngs_modulus
            below == IsFin(c) /\ FLt(FMul(FAbs(FSub(c, r)), Int2F(5)), r)
        IN  /\ screen.verdict = IF below THEN "consistent" ELSE "differs significantly"
            /\ screen.note = ~below

\* C3 witness: the report for calculated = 168 against reference = 210.
C3_AtTwentyPercent ==
    /\ pc = "save"
    /\ calculated_modulus = Int2F(168)
    /\ material.youngs_modulus = Int2F(210)
    /\ screen.verdict = "differs significantly"

\* The reading has a nonzero deflection, taken in metres as the formulas
\* take it.
Deflects(r) == FNe(FDiv(r.depression, Int2F(100)), ZERO)

\* The readings of rs that have a nonzero deflection, in order.
RECURSIVE NonzeroReadings(_)
NonzeroReadings(rs) ==
    IF rs = <<>> THEN <<>>
    ELSE IF Deflects(Head(rs)) THEN <<Head(rs)>> \o NonzeroReadings(Tail(rs))
    ELSE NonzeroReadings(Tail(rs))

\* The modulus one reading implies in the chosen bending mode.
ReadingModulus(r) ==
    IF bending_type = 1
    THEN uniform_reading(length, calculate_moment_of_inertia(breadth, width), r)
    ELSE nonuniform_reading(length, calculate_moment_of_inertia(breadth, width), r)

\* The sum of f[j] over the indices in js.
RECURSIVE SumOver(_, _)
SumOver(f, js) ==
    IF js = {} THEN ZERO
    ELSE LET j == CHOOSE j \in js : TRUE
         IN  FAdd(f[j], SumOver(f, js \ {j}))

\* C2: the physics function never raises, and whenever it has returned, the
\* average is the sum of the per-reading moduli of the readings with nonzero
\* deflection divided by their number, and exactly 0 when there is no such
\* reading.
C2_AverageOverNonzeroDeflections ==
    /\ error = ""
    /\ pc \in {"display", "save", "done"} =>
         LET nz == NonzeroReadings(readings)
             ys == [j \in 1..Len(nz) |-> ReadingModulus(nz[j])]
         IN  /\ \A j \in 1..Len(nz) : ys[j] # NO_READING /\ ~IsErr(ys[j])
             /\ calculated_modulus =
                  IF nz = <<>> THEN ZERO
                  ELSE FDiv(SumOver(ys, 1..Len(nz)), Int2F(Len(nz)))

Positive(x) == FLt(ZERO, x)

\* What a step taken at one of the three prompts of get_dimensions satisfies.
C4_Step ==
    pc \in {"length", "breadth", "width"} =>
       /\ pc' \in {"length", "breadth", "width", "bending"}
       /\ IsValueError(float(line')) => pc' = "length"
       /\ pc' = "breadth" => pc = "length" /\ length' = float(line')
       /\ pc' = "width" => pc = "breadth" /\ breadth' = float(line') /\ length' = length
       /\ pc' = "bending" =>
            /\ pc = "width"
            /\ width' = float(line') /\ length' = length /\ breadth' = breadth
            /\ Positive(length') /\ Positive(breadth') /\ Positive(width')
       /\ (pc = "width" /\ ~IsValueError(float(line'))
             /\ ~(Positive(length) /\ Positive(breadth) /\ Positive(float(line'))))
            => pc' = "length"

\* C4: get_dimensions returns only a triple whose three values were all
\* entered in the same attempt, parsed as numbers and are strictly positive;
\* a parse failure, or a non-positive value once the attempt is complete,
\* leads back to the length prompt.
C4_DimensionsAllOrNothing == [][C4_Step]_vars

\* What a step taken at a deflection prompt satisfies.
C5_Step ==
    pc = "reading" =>
       IF IsValueError(float(line'))
       THEN pc' = "reading" /\ i' = i /\ readings' = readings
       ELSE /\ readings' = Append(readings,
                                  [reading_num |-> Len(readings) + 1,
                                   weight      |-> FMul(weight_increment,
                                                        Int2F(Len(readings) + 1)),
                                   depression  |-> float(line')])
            /\ pc' = IF Len(readings') = num_readings THEN "calculate" ELSE "reading"

\* What the readings satisfy from the first deflection prompt on.
C5_Invariant ==
    pc \in {"reading", "calculate", "display", "save", "done"} =>
       /\ num_readings > 0
       /\ Len(readings) <= num_readings
       /\ pc # "reading" => Len(readings) = num_readings
       /\ pc = "reading" => Len(readings) < num_readings
       /\ \A j \in 1..Len(readings) :
            /\ readings[j].reading_num = j
            /\ readings[j].weight = FMul(weight_increment, Int2F(j))

\* C5: each deflection prompt either fails to parse, and then nothing moves
\* (same index, same readings, same prompt), or appends exactly one reading
\* numbered one more than the last with weight increment * number; the
\* readings collected before are kept, and get_readings returns when and
\* only when there are num_readings of them, numbered 1..num_readings.
C5_ReadingsFieldLocal == [][C5_Step]_vars /\ []C5_Invariant

\* C5 witness: the second reading is being asked for again after a line that
\* did not parse, with the first reading in place.
C5_RetryOfSecondReading ==
    /\ pc = "reading"
    /\ Len(readings) = 1
    /\ IsValueError(float(line))
    /\ Positive(weight_increment)

\* What a step taken at the material prompt satisfies.
C6_Step ==
    pc = "choice" =>
       IF ~IsValueError(int(line')) /\ int(line').v \in 1..13
       THEN /\ pc' = "length"
            /\ material_key' = DATABASE_LITERAL[int(line').v].key
            /\ material'.name = DATABASE_LITERAL[int(line').v].name
            /\ material'.youngs_modulus = DATABASE_LITERAL[int(line').v].youngs_modulus
            /\ int(line').v = 1 => material_key' = "iron"
       ELSE pc' = "choice" /\ material_key' = material_key /\ material' = material

C6_Invariant == MATERIAL_DATABASE = DATABASE_LITERAL /\ Len(MATERIAL_DATABASE) = 13

\* C6: a choice resolves exactly when it is an integer k with 1 <= k <= 13,
\* and then to the k-th catalog entry in insertion order (iron for k = 1);
\* every other line leaves the selection unresolved at the same prompt; the
\* catalog never changes.
C6_MaterialSelection == [][C6_Step]_vars /\ []C6_Invariant

\* C6 witness: the thirteenth entry has been selected.
C6_LastEntrySelected ==
    /\ pc = "length"
    /\ line = <<" ", "1", "3", " ">>
    /\ material_key = "acrylic"

\* The stage a position of main belongs to, in the order of the run.
Stage(p) ==
    CASE p = "choice" -> 1
      [] p \in {"length", "breadth", "width"} -> 2
      [] p = "bending" -> 3
      [] p = "num_readings" -> 4
      [] p = "weight_increment" -> 5
      [] p = "reading" -> 6
      [] p = "calculate" -> 7
      [] p = "display" -> 8
      [] p = "save" -> 9
      [] p = "done" -> 10
      [] OTHER -> 0

\* What every step of the run satisfies.
C7_Step ==
    /\ pc' # "crashed"
    /\ Stage(pc') \in {Stage(pc), Stage(pc) + 1}
    /\ Stage(pc') = Stage(pc) + 1 =>
         CASE pc = "choice" -> ~IsValueError(int(line')) /\ int(line').v \in 1..13
           [] pc = "width" -> Positive(length') /\ Positive(breadth') /\ Positive(width')
           [] pc = "bending" -> ~IsValueError(int(line')) /\ int(line').v \in {1, 2}
           [] pc = "num_readings" -> ~IsValueError(int(line')) /\ int(line').v > 0
           [] pc = "weight_increment" -> Positive(float(line'))
           [] pc = "reading" -> ~IsValueError(float(line'))
           [] pc \in {"calculate", "display", "save"} -> TRUE
           [] OTHER -> FALSE

\* C7: the run never ends in an error; a step stays in its stage or enters
\* the next one, and an input stage is left only on an input valid for it.
C7_StagesInOrder == [][C7_Step]_vars

\* The save answers that are "yes" or "y" once trimmed and lower-cased.
ConsentingLines == {<<"y", "e", "s">>, <<"y">>, <<" ", "Y", "E", "S", " ">>}

\* What holds of the files written so far.
C8_Invariant ==
    /\ pc = "done" /\ line \notin ConsentingLines => files = {}
    /\ files # {} =>
         /\ pc = "done"
         /\ line \in ConsentingLines
         /\ screen.verdict \in {"consistent", "differs significantly"}
         /\ Cardinality(files) = 1
         /\ bending_type \in {1, 2}
         /\ \E j \in 1..Len(DATABASE_LITERAL) : material_key = DATABASE_LITERAL[j].key
         /\ \A f \in files :
              f.name = "youngs_modulus_" \o material_key \o "_"
                         \o (IF bending_type = 1 THEN "1" ELSE "2") \o ".txt"

\* What a step that changes the files satisfies.
C8_Step == files' # files => pc = "save" /\ files = {} /\ line' \in ConsentingLines

\* C8: a file is written at most once, at the save prompt after the report
\* has been rendered, and only on an answer that is "yes" or "y" after
\* trimming and lower-casing; any other answer leaves the files as they are;
\* the file is named youngs_modulus_<material key>_<1 or 2>.txt after the
\* chosen material and bending mode.
C8_FileOnlyOnConsent == [][C8_Step]_vars /\ []C8_Invariant

\* C8 witness: the report file was written on the answer " YES ".
C8_SavedOnUpperCaseYes ==
    /\ pc = "done"
    /\ line = <<" ", "Y", "E", "S", " ">>
    /\ files # {}

\* x is y at a display precision of tol (the same special value if y is one).
Shows(x, y, tol) ==
    IF IsFin(y) THEN IsFin(x) /\ FLe(FAbs(FSub(x, y)), tol) ELSE x = y

\* What holds of the table and of the file once they exist.
C9_Invariant ==
    /\ pc \in {"save", "done"} =>
         /\ Len(screen.rows) = Len(readings)
         /\ \A j \in 1..Len(readings) :
              /\ screen.rows[j].reading_num = readings[j].reading_num
              /\ Shows(screen.rows[j].weight, readings[j].weight, Dec(5, -3))
              /\ Shows(screen.rows[j].depression, readings[j].depression, Dec(5, -5))
    /\ \A f \in files :
         /\ Len(f.readings) = Len(readings)
         /\ \A j \in 1..Len(readings) :
              /\ f.readings[j].reading_num = readings[j].reading_num
              /\ f.readings[j].weight = readings[j].weight
              /\ f.readings[j].depression = readings[j].depression

\* What a step of the computation, the report or the save satisfies.
C9_Step == pc \in {"calculate", "display", "save"} => readings' = readings

\* C9: computation, report and save leave the readings as get_readings
\* returned them; the table has one row per reading, in order, showing its
\* number, its weight and its signed deflection (to the 2 and 4 decimals
\* printed); the file, when written, lists every reading once with its exact
\* weight and signed deflection.
C9_ReadingsKeptAndShownSigned == [][C9_Step]_vars /\ []C9_Invariant

\* C9 witness: a saved report of readings with a negative and a zero deflection.
C9_SavedNegativeAndZero ==
    /\ pc = "done"
    /\ files # {}
    /\ \E j \in 1..Len(readings) : readings[j].depression = Dec(-2, -1)
    /\ \E j \in 1..Len(readings) : readings[j].depression = ZERO

\* The indices of the readings with a nonzero deflection.
NonzeroRows == {j \in 1..Len(readings) : Deflects(readings[j])}

====
